---- MODULE Spec2Model ----
(***************************************************************************)
(* A model of colcon_core.package_descriptor (PackageDescriptor and        *)
(* DependencyWalker) and of                                                *)
(* colcon_core.event_handler.console_start_end                             *)
(* (ConsoleStartEndEventHandler).                                          *)
(*                                                                         *)
(* The recursion DependencyCache.__missing__ ->                            *)
(* DependencyWalker.get_recursive_dependencies -> dependency_cache[dep]    *)
(* -> __missing__ is modelled by an explicit call stack, one frame per     *)
(* activation of __missing__; the iteration order of Python sets is a      *)
(* nondeterministic choice of the next element.                            *)
(***************************************************************************)
EXTENDS Integers, Sequences, FiniteSets, TLC

VARIABLES
    descriptors,          \* the set of PackageDescriptor objects: records [path, type, name]
    dependencies,         \* PackageDescriptor.dependencies of each descriptor, by path
    categories,           \* DependencyWalker.categories, per walker
    descriptors_by_name,  \* DependencyWalker.descriptors_by_name, per walker
    dependency_cache,     \* DependencyWalker.dependency_cache, per walker
    stack,                \* active __missing__ activations of a walker, innermost last
    call,                 \* the outermost walker.get_recursive_dependencies call
    status,               \* "idle", "running", "returned" or the exception raised
    result,               \* the set the outermost call returned
    pcall,                \* the last PackageDescriptor.get_recursive_dependencies call
    gd,                   \* the last PackageDescriptor.get_dependencies call from outside
    start_times,          \* ConsoleStartEndEventHandler._start_times
    now,                  \* the last value time.time() returned
    stdout,               \* the lines printed to sys.stdout
    stderr,               \* the lines printed to sys.stderr
    raised,               \* the exception the last __call__ raised, or "none"
    events,               \* history: the events the handler was called with
    jobs,                 \* the scheduler's jobs: "NotStarted", "Running", "Ended"
    filesystem,           \* the directories and symbolic links os.path.realpath reads
    probe,                \* the last ==, hash() or identifies_package() on descriptors
    hashes,               \* history: the value hash() returned for a descriptor
    kept,                 \* the outcome of a get_recursive_dependencies call the caller kept
    reading               \* the get_dependencies call a session's walker is inside, per walker

pkgVars == <<descriptors, dependencies>>
walkerVars == <<categories, descriptors_by_name, dependency_cache, stack, call,
                status, result>>
reporterVars == <<start_times, now, stdout, stderr, raised, events, jobs>>
identityVars == <<filesystem, probe, hashes>>
vars == <<pkgVars, walkerVars, pcall, gd, reporterVars, identityVars, kept, reading>>

----------------------------------------------------------------------------
\* Bounds of the model.

\* Frames of __missing__ the interpreter allows before it raises
\* RecursionError; larger than any acyclic chain over DepNames.
RecursionLimit == 5
\* Dependency entries declared in a whole descriptor universe.
MaxEdges == 2
\* Names passed to one outermost walker.get_recursive_dependencies call.
MaxArgs == 2
\* Events delivered to one reporter that is fed arbitrary events.
MaxEvents == 3
\* The latest value of time.time(), in ticks of 5 ms.
MaxTime == 2

----------------------------------------------------------------------------
\* Values.

\* Python's None as a categories argument, and the categories of a walker that
\* does not exist; neither is a set of category names.
None == {"<None>"}
Absent == {"<absent>"}

PkgNames == {"a", "b", "c"}
External == "x"
DepNames == PkgNames \cup {External}
Categories == {"build", "run"}
CategoryOrder == <<"build", "run", "test">>
Paths == {"/1", "/2", "/3"}
PkgType == "python"
JobIds == {"pkgX", "pkgY"}

\* The walker a caller keeps and the single-use walker of
\* PackageDescriptor.get_recursive_dependencies; the walkers of two resolution
\* sessions that run at the same time.
Sessions == {"session1", "session2"}
Walkers == {"shared", "single"} \cup Sessions

\* A bare-string dependency entry and a DependencyDescriptor entry.
Str(n) == [name |-> n, kind |-> "str"]
DependencyDescriptor(d) == [name |-> d.name, kind |-> "dd"]

\* DependencyDescriptor hashes and compares by name, also against a str.
DepEq(x, y) == x.name = y.name

Names(S) == {e.name : e \in S}

\* `x in S` for a Python set S.
PyIn(x, S) == \E e \in S : DepEq(e, x)

\* `S |= T`: elements equal to one already in S are not added.
PyUnion(S, T) == S \cup {e \in T : ~PyIn(e, S)}

RECURSIVE SubsetsUpTo(_, _)
SubsetsUpTo(S, k) ==
    IF k = 0 THEN {{}}
    ELSE LET R == SubsetsUpTo(S, k - 1)
         IN  R \cup {r \cup {t} : r \in R, t \in S}

----------------------------------------------------------------------------
\* PackageDescriptor.get_dependencies

Rank(c) == CHOOSE i \in 1..Len(CategoryOrder) : CategoryOrder[i] = c

\* sorted(categories)
RECURSIVE Sorted(_)
Sorted(cs) ==
    IF cs = {} THEN <<>>
    ELSE LET c == CHOOSE x \in cs : \A y \in cs : Rank(x) <= Rank(y)
         IN  <<c>> \o Sorted(cs \ {c})

\* self.dependencies[category] on the defaultdict(set): a missing key is
\* inserted with an empty set.
DefaultGet(dmap, c) == IF c \in DOMAIN dmap THEN dmap ELSE dmap @@ (c :> {})

\* Mutant of UnionLoop: the loop stops after the first category.
UnionLoopFirst(dmap, cs, acc) ==
    IF cs = <<>> THEN [dependencies |-> dmap, acc |-> acc]
    ELSE LET d2 == DefaultGet(dmap, Head(cs))
         IN  [dependencies |-> d2, acc |-> PyUnion(acc, d2[Head(cs)])]

\* Mutant of LoopStep: the operands of |= are the other way round.
LoopStepSwapped(dmap, c, acc) ==
    LET d2 == DefaultGet(dmap, c)
    IN  [dependencies |-> [d2 EXCEPT ![c] = PyUnion(d2[c], acc)],
         acc |-> PyUnion(acc, d2[c])]

\* One pass of the loop: dependencies |= self.dependencies[category]
LoopStep(dmap, c, acc) ==
    LET d2 == DefaultGet(dmap, c)
    IN  [dependencies |-> d2, acc |-> PyUnion(acc, d2[c])]

\* for category in sorted(categories): dependencies |= self.dependencies[category]
RECURSIVE UnionLoop(_, _, _)
UnionLoop(dmap, cs, acc) ==
    IF cs = <<>> THEN [dependencies |-> dmap, acc |-> acc]
    ELSE LET d2 == DefaultGet(dmap, Head(cs))
         IN  UnionLoop(d2, Tail(cs), PyUnion(acc, d2[Head(cs)]))

\* Mutant of SelfListed: only a bare string counts as the own name.
SelfListedStr(name, deps) == Str(name) \in deps

\* assert self.name not in dependencies
SelfListed(name, deps) == PyIn(Str(name), deps)

\* Mutant of get_dependencies: the categories filter is ignored.
get_dependenciesUnfiltered(name, dmap, cats) ==
    LET r  == UnionLoop(dmap, Sorted(DOMAIN dmap), {})
        bad == SelfListed(name, r.acc)
    IN  [dependencies |-> r.dependencies,
         raised |-> bad,
         result |-> IF bad THEN {} ELSE {DependencyDescriptor(d) : d \in r.acc}]

\* Mutant of get_dependencies: the assertion is missing.
get_dependenciesUnchecked(name, dmap, cats) ==
    LET cs == IF cats = None THEN DOMAIN dmap ELSE cats
        r  == UnionLoop(dmap, Sorted(cs), {})
    IN  [dependencies |-> r.dependencies,
         raised |-> FALSE,
         result |-> {DependencyDescriptor(d) : d \in r.acc}]

\* The call on the descriptor named `name` whose dependencies mapping is dmap:
\* the mapping afterwards, whether AssertionError was raised, the returned set.
get_dependencies(name, dmap, cats) ==
    LET cs == IF cats = None THEN DOMAIN dmap ELSE cats
        r  == UnionLoop(dmap, Sorted(cs), {})
        bad == SelfListed(name, r.acc)
    IN  [dependencies |-> r.dependencies,
         raised |-> bad,
         result |-> IF bad THEN {} ELSE {DependencyDescriptor(d) : d \in r.acc}]

----------------------------------------------------------------------------
\* PackageDescriptor identity: __init__, identifies_package, __hash__, __eq__

\* self.type = None and self.name = None, and None given as the path.
Unset == "<unset>"

PathArgs == {Unset, "", "/ws/a", "/ws/a/", "/ws/link", "/ws/gone"}
Types == {Unset, "", "python"}
PackageNames == {Unset, "", "a"}

\* self.path = Path(str(path)): str(None) is 'None', Path('') is Path('.'),
\* and a trailing slash is dropped.
PathOf(arg) ==
    CASE arg = Unset -> "None"
      [] arg = "" -> "."
      [] arg = "/ws/a/" -> "/ws/a"
      [] OTHER -> arg

\* What Path('') is.
EmptyPath == "."

\* The descriptor __init__(path) builds, once discovery has set type and name.
PackageDescriptor(arg, type, name) ==
    [path |-> PathOf(arg), type |-> type, name |-> name]

IsPackageDescriptor(o) == DOMAIN o = {"path", "type", "name"}

\* The filesystems: /ws/a is a directory; /ws/link is missing, a directory of
\* its own or a symbolic link to /ws/a; /ws/gone is missing; the working
\* directory is /cwd or /ws/a.
Filesystems ==
    {[cwd |-> "/cwd", exists |-> {"/cwd", "/ws/a"}, links |-> <<>>],
     [cwd |-> "/cwd", exists |-> {"/cwd", "/ws/a", "/ws/link"}, links |-> <<>>],
     [cwd |-> "/cwd", exists |-> {"/cwd", "/ws/a", "/ws/link"},
      links |-> ("/ws/link" :> "/ws/a")],
     [cwd |-> "/ws/a", exists |-> {"/ws/a", "/ws/link"},
      links |-> ("/ws/link" :> "/ws/a")]}

\* os.path.realpath(str(path)): a relative path is taken from the working
\* directory and a symbolic link is replaced by its target.
realpath(fs, p) ==
    LET a == CASE p = "." -> fs.cwd
               [] p = "None" -> IF fs.cwd = "/cwd" THEN "/cwd/None" ELSE "/ws/a/None"
               [] OTHER -> p
    IN  IF a \in DOMAIN fs.links THEN fs.links[a] ELSE a

\* Whether str(path) names something that exists.
Exists(fs, p) == p # "None" /\ (IF p = "." THEN fs.cwd ELSE p) \in fs.exists

\* A Python value: a Path, a str, None or a bool.
PathValue(p) == [kind |-> "Path", v |-> p]
StrValue(x) == IF x = Unset THEN [kind |-> "NoneType", v |-> "None"]
               ELSE [kind |-> "str", v |-> x]
BoolValue(b) == [kind |-> "bool", v |-> IF b THEN "True" ELSE "False"]
NotImplemented == [kind |-> "NotImplementedType", v |-> "NotImplemented"]

\* bool(value): a Path defines neither __bool__ nor __len__ and is true; a
\* str is true unless it is empty; None is false.
Truthy(val) ==
    CASE val.kind = "Path" -> TRUE
      [] val.kind = "str" -> val.v # ""
      [] val.kind = "bool" -> val.v = "True"
      [] OTHER -> FALSE

\* x and y
PyAnd(x, y) == IF Truthy(x) THEN y ELSE x

\* return self.path and self.type and self.name
identifies_package(self) ==
    PyAnd(PyAnd(PathValue(self.path), StrValue(self.type)), StrValue(self.name))

\* hash() of a str or of None, folded to a small range.
StrHash(x) ==
    CASE x = Unset -> 0
      [] x = "" -> 1
      [] x = "python" -> 2
      [] x = "a" -> 3
      [] OTHER -> 4

\* return hash((self.type, self.name))
__hash__(self) == (3 * StrHash(self.type) + StrHash(self.name)) % 7

\* Mutant of __eq__: only the paths as given are compared.
EqLiteralPath(fs, self, other) ==
    IF ~IsPackageDescriptor(other) THEN NotImplemented
    ELSE IF <<self.type, self.name>> # <<other.type, other.name>> THEN BoolValue(FALSE)
    ELSE BoolValue(self.path = other.path)

\* PackageDescriptor.__eq__(self, other) on the filesystem fs.
__eq__(fs, self, other) ==
    IF ~IsPackageDescriptor(other) THEN NotImplemented
    ELSE IF <<self.type, self.name>> # <<other.type, other.name>> THEN BoolValue(FALSE)
    ELSE IF self.path = other.path THEN BoolValue(TRUE)
    ELSE BoolValue(realpath(fs, self.path) = realpath(fs, other.path))

NoProbe == [op |-> "none", self |-> <<>>, other |-> <<>>, value |-> BoolValue(FALSE)]
----------------------------------------------------------------------------
\* DependencyWalker

Desc(p) == CHOOSE d \in descriptors : d.path = p

\* DependencyWalker.__init__: descriptors_by_name[d.name].add(d)
IndexByName(ds) ==
    [n \in {d.name : d \in ds} |-> {d.path : d \in {e \in ds : e.name = n}}]

\* Mutant of NewFrame: the name is indexed to one descriptor, the others of
\* the same name being dropped.
NewFrameOne(w, key) ==
    LET known == key \in DOMAIN descriptors_by_name[w]
    IN  [key |-> key,
         dependency_set |-> IF known THEN {key} ELSE {},
         descs |-> IF known
                   THEN {CHOOSE p \in descriptors_by_name[w][key] : TRUE}
                   ELSE {},
         inloop |-> FALSE,
         deps |-> {},
         total |-> {}]

\* Mutant of NewFrame: the key is added whether or not it names a known package.
NewFrameAlways(w, key) ==
    LET known == key \in DOMAIN descriptors_by_name[w]
    IN  [key |-> key,
         dependency_set |-> {key},
         descs |-> IF known THEN descriptors_by_name[w][key] ELSE {},
         inloop |-> FALSE,
         deps |-> {},
         total |-> {}]

\* The first part of __missing__(key), up to the loop over the descriptors.
NewFrame(w, key) ==
    LET known == key \in DOMAIN descriptors_by_name[w]
    IN  [key |-> key,
         dependency_set |-> IF known THEN {key} ELSE {},
         descs |-> IF known THEN descriptors_by_name[w][key] ELSE {},
         inloop |-> FALSE,
         deps |-> {},
         total |-> {}]

\* Mutant of FrameAbsorb: only the dependency itself is taken, not its closure.
FrameAbsorbDirect(f, dep, S) ==
    LET left == f.deps \ {dep}
        tot  == f.total \cup (S \cap {dep})
    IN  IF left = {}
        THEN [f EXCEPT !.deps = {}, !.total = {}, !.inloop = FALSE,
                       !.dependency_set = f.dependency_set \cup tot]
        ELSE [f EXCEPT !.deps = left, !.total = tot]

\* total_dependency_set.update(S) for the dependency dep in the loop of frame f;
\* when the loop is over, dependency_set.update(recursive_deps).
FrameAbsorb(f, dep, S) ==
    LET left == f.deps \ {dep}
        tot  == f.total \cup S
    IN  IF left = {}
        THEN [f EXCEPT !.deps = {}, !.total = {}, !.inloop = FALSE,
                       !.dependency_set = f.dependency_set \cup tot]
        ELSE [f EXCEPT !.deps = left, !.total = tot]

\* The same for the loop of the outermost call c.
CallAbsorb(c, dep, S) ==
    [c EXCEPT !.todo = c.todo \ {dep}, !.total = c.total \cup S]

Top(w) == stack[w][Len(stack[w])]
Pop(s) == SubSeq(s, 1, Len(s) - 1)
SetTop(s, f) == [s EXCEPT ![Len(s)] = f]

\* The names the loop that is running now has still to look up.
Pending(w) ==
    IF stack[w] = <<>> THEN call[w].todo
    ELSE IF Top(w).inloop THEN Top(w).deps ELSE {}

NoCall == [args |-> {}, todo |-> {}, total |-> {}]

\* The state after set S was absorbed for dep by the loop that looked it up.
Deliver(w, s, dep, S) ==
    IF s = <<>>
    THEN LET c == CallAbsorb(call[w], dep, S)
         IN  /\ stack' = [stack EXCEPT ![w] = <<>>]
             /\ call' = [call EXCEPT ![w] = c]
             /\ IF c.todo = {}
                THEN /\ status' = [status EXCEPT ![w] = "returned"]
                     /\ result' = [result EXCEPT ![w] = c.total]
                ELSE UNCHANGED <<status, result>>
    ELSE /\ stack' = [stack EXCEPT ![w] = SetTop(s, FrameAbsorb(s[Len(s)], dep, S))]
         /\ UNCHANGED <<call, status, result>>

\* An exception leaves through every frame to the caller.
Raise(w, exc) ==
    /\ stack' = [stack EXCEPT ![w] = <<>>]
    /\ status' = [status EXCEPT ![w] = exc]
    /\ result' = [result EXCEPT ![w] = {}]
    /\ UNCHANGED call

NoPCall == [path |-> "", direct |-> None, recursive |-> None, walker |-> ""]
NoGd == [path |-> "", categories |-> None, outcome |-> "none", result |-> {}]

NoKept == [pcall |-> NoPCall, status |-> "idle", result |-> {}]

\* The walker is inside no get_dependencies call.
NoReading == [path |-> "", todo |-> <<>>, acc |-> {}]

\* No descriptor was compared, hashed or asked, and no result was kept.
NoIdentity ==
    /\ filesystem = [cwd |-> "/cwd", exists |-> {"/cwd"}, links |-> <<>>]
    /\ probe = NoProbe
    /\ hashes = <<>>
    /\ kept = NoKept
    /\ reading = [w \in Walkers |-> NoReading]

Idle == \A w \in Walkers : status[w] # "running"

\* The last call on walker w has returned or raised.
Finished(w) == status[w] \in {"returned", "AssertionError", "RecursionError"}

\* The state of walker w once get_recursive_dependencies(*args) is entered on it.
Enter(w, args) ==
    /\ call' = [call EXCEPT !["single"] = NoCall,
                            ![w] = [args |-> args, todo |-> args, total |-> {}]]
    /\ status' = [status EXCEPT !["single"] = "idle",
                                ![w] = IF args = {} THEN "returned" ELSE "running"]
    /\ result' = [result EXCEPT !["single"] = {}, ![w] = {}]

\* walker.get_recursive_dependencies(*args) is called from outside on the
\* walker the caller keeps; an earlier single-use walker is gone.
WalkerCall(w, args) ==
    /\ Idle
    /\ w = "shared"
    /\ categories[w] # Absent
    /\ Enter(w, args)
    /\ categories' = [categories EXCEPT !["single"] = Absent]
    /\ descriptors_by_name' = [descriptors_by_name EXCEPT !["single"] = <<>>]
    /\ dependency_cache' = [dependency_cache EXCEPT !["single"] = <<>>]
    /\ pcall' = NoPCall
    /\ UNCHANGED <<descriptors, dependencies, stack, gd, reporterVars,
                   identityVars, kept, reading>>

\* self.dependency_cache[dep] finds dep in the cache.
CacheHit(w, dep) ==
    /\ status[w] = "running"
    /\ dep \in Pending(w)
    /\ dep \in DOMAIN dependency_cache[w]
    /\ Deliver(w, stack[w], dep, dependency_cache[w][dep])
    /\ UNCHANGED <<descriptors, dependencies, categories, descriptors_by_name,
                   dependency_cache, pcall, gd, reporterVars,
                   identityVars, kept, reading>>

\* self.dependency_cache[dep] does not find dep: __missing__(dep) is entered.
CacheMiss(w, dep) ==
    /\ status[w] = "running"
    /\ dep \in Pending(w)
    /\ dep \notin DOMAIN dependency_cache[w]
    /\ IF Len(stack[w]) < RecursionLimit
       THEN /\ stack' = [stack EXCEPT ![w] = Append(@, NewFrame(w, dep))]
            /\ UNCHANGED <<call, status, result>>
       ELSE Raise(w, "RecursionError")
    /\ UNCHANGED <<descriptors, dependencies, categories, descriptors_by_name,
                   dependency_cache, pcall, gd, reporterVars,
                   identityVars, kept, reading>>

\* for descriptor in descriptors_by_name[key]:
\*     dependencies = descriptor.get_dependencies(categories=oself.categories)
NextDescriptor(w, p) ==
    /\ status[w] = "running"
    /\ stack[w] # <<>>
    /\ ~Top(w).inloop
    /\ p \in Top(w).descs
    /\ LET f == Top(w)
           r == get_dependencies(Desc(p).name, dependencies[p], categories[w])
           names == Names(r.result)
       IN  /\ dependencies' = [dependencies EXCEPT ![p] = r.dependencies]
           /\ IF r.raised
              THEN Raise(w, "AssertionError")
              ELSE /\ stack' = [stack EXCEPT ![w] = SetTop(@,
                            [f EXCEPT !.descs = f.descs \ {p},
                                      !.deps = names,
                                      !.total = {},
                                      !.inloop = names # {}])]
                   /\ UNCHANGED <<call, status, result>>
    /\ UNCHANGED <<descriptors, categories, descriptors_by_name, dependency_cache,
                   pcall, gd, reporterVars,
                   identityVars, kept, reading>>

\* Mutant of Stored: the entry is written as it was before the loop over the
\* descriptors ran.
StoredEarly(cache, key, dependency_set) ==
    IF key \in DOMAIN cache
    THEN [cache EXCEPT ![key] = dependency_set \cap {key}]
    ELSE cache @@ (key :> dependency_set \cap {key})

\* Mutant of Stored: the computed set is returned but not memoized.
StoredNothing(cache, key, dependency_set) == cache

\* What __missing__ stores under key before it returns dependency_set.
Stored(cache, key, dependency_set) ==
    IF key \in DOMAIN cache
    THEN [cache EXCEPT ![key] = dependency_set]
    ELSE cache @@ (key :> dependency_set)

\* self[key] = dependency_set; return dependency_set
MissingReturn(w) ==
    /\ status[w] = "running"
    /\ stack[w] # <<>>
    /\ ~Top(w).inloop
    /\ Top(w).descs = {}
    /\ LET f == Top(w)
       IN  /\ dependency_cache' = [dependency_cache EXCEPT
                                      ![w] = Stored(@, f.key, f.dependency_set)]
           /\ Deliver(w, Pop(stack[w]), f.key, f.dependency_set)
    /\ UNCHANGED <<descriptors, dependencies, categories, descriptors_by_name,
                   pcall, gd, reporterVars,
                   identityVars, kept, reading>>

----------------------------------------------------------------------------
\* Descriptor universes.

\* The dependency entries a universe may declare.
UniverseEntries == {Str("a"), DependencyDescriptor(Str("b")), Str("c"), Str(External)}

\* The descriptors that declare dependencies: those of a and b; c is a leaf.
Declaring == {"/1", "/2"}

Edges == Declaring \X Categories \X UniverseEntries

\* defaultdict(set) of a descriptor after discovery added the entries of E.
DependenciesOf(E, p) ==
    LET cats == {e[2] : e \in {x \in E : x[1] = p}}
    IN  [c \in cats |-> {e[3] : e \in {x \in E : x[1] = p /\ x[2] = c}}]

ThreePackages ==
    {[path |-> "/1", type |-> PkgType, name |-> "a"],
     [path |-> "/2", type |-> PkgType, name |-> "b"],
     [path |-> "/3", type |-> PkgType, name |-> "c"]}

WalkerCategories == {None, {"run"}}
DirectCategories == {None, {"run"}}

\* No walker exists.
NoWalkers ==
    /\ categories = [x \in Walkers |-> Absent]
    /\ descriptors_by_name = [x \in Walkers |-> <<>>]
    /\ dependency_cache = [x \in Walkers |-> <<>>]
    /\ stack = [x \in Walkers |-> <<>>]
    /\ call = [x \in Walkers |-> NoCall]
    /\ status = [x \in Walkers |-> "idle"]
    /\ result = [x \in Walkers |-> {}]

\* The caller has built DependencyWalker(descriptors, cats) and keeps it.
InitWalker(cats) ==
    /\ categories = [x \in Walkers |-> IF x = "shared" THEN cats ELSE Absent]
    /\ descriptors_by_name =
          [x \in Walkers |-> IF x = "shared" THEN IndexByName(descriptors) ELSE <<>>]
    /\ dependency_cache = [x \in Walkers |-> <<>>]
    /\ stack = [x \in Walkers |-> <<>>]
    /\ call = [x \in Walkers |-> NoCall]
    /\ status = [x \in Walkers |-> "idle"]
    /\ result = [x \in Walkers |-> {}]

\* ConsoleStartEndEventHandler.__init__, and no job started.
InitReporter ==
    /\ start_times = <<>>
    /\ now = 0
    /\ stdout = <<>>
    /\ stderr = <<>>
    /\ raised = "none"
    /\ events = <<>>
    /\ jobs = [j \in JobIds |-> "NotStarted"]

\* Three packages a, b and c after discovery.
InitUniverse ==
    /\ descriptors = ThreePackages
    /\ \E E \in SubsetsUpTo(Edges, MaxEdges) :
          dependencies = [p \in Paths |-> DependenciesOf(E, p)]

Init ==
    /\ InitUniverse
    /\ \E cats \in WalkerCategories : InitWalker(cats)
    /\ pcall = NoPCall
    /\ gd = NoGd
    /\ InitReporter
    /\ NoIdentity

Queries == SubsetsUpTo(DepNames, MaxArgs)

Next ==
    \/ \E args \in Queries : WalkerCall("shared", args)
    \/ \E dep \in DepNames : CacheHit("shared", dep)
    \/ \E dep \in DepNames : CacheMiss("shared", dep)
    \/ \E p \in Paths : NextDescriptor("shared", p)
    \/ MissingReturn("shared")

\* Queries on one DependencyWalker over a universe of three packages.
Spec == Init /\ [][Next]_vars

----------------------------------------------------------------------------
\* A universe in which two descriptors carry the same name.

\* The package a was discovered at /1 and at /2, two directories of their
\* own, so the two descriptors are unequal and both are in the set.
DuplicatePackages ==
    {[path |-> "/1", type |-> PkgType, name |-> "a"],
     [path |-> "/2", type |-> PkgType, name |-> "a"],
     [path |-> "/3", type |-> PkgType, name |-> "b"]}

\* The dependency entries of these universes: any of them may be declared; c
\* and x name no package.
DuplicateMenu ==
    {<<"/1", "build", Str(External)>>,
     <<"/1", "run", Str("c")>>,
     <<"/2", "run", DependencyDescriptor(Str("b"))>>,
     <<"/2", "build", Str("b")>>,
     <<"/3", "run", Str("a")>>}

InitDuplicates ==
    /\ descriptors = DuplicatePackages
    /\ \E E \in SUBSET DuplicateMenu :
          dependencies = [p \in Paths |-> DependenciesOf(E, p)]
    /\ \E cats \in WalkerCategories : InitWalker(cats)
    /\ pcall = NoPCall
    /\ gd = NoGd
    /\ InitReporter
    /\ NoIdentity

\* Queries on one DependencyWalker over a universe with a duplicated name.
SpecDuplicates == InitDuplicates /\ [][Next]_vars

----------------------------------------------------------------------------
\* PackageDescriptor.get_dependencies called from outside.

\* descriptor.get_dependencies(categories=cats) on the descriptor at path p.
GetDependencies(p, cats) ==
    /\ Idle
    /\ LET r == get_dependencies(Desc(p).name, dependencies[p], cats)
       IN  /\ dependencies' = [dependencies EXCEPT ![p] = r.dependencies]
           /\ gd' = [path |-> p,
                     categories |-> cats,
                     outcome |-> IF r.raised THEN "AssertionError" ELSE "returned",
                     result |-> r.result]
    /\ UNCHANGED <<descriptors, walkerVars, pcall, reporterVars,
                   identityVars, kept, reading>>

\* The entries one category of the package a may hold: for each name nothing,
\* the bare string or a DependencyDescriptor.
EntryChoices(n) == {{}, {Str(n)}, {DependencyDescriptor(Str(n))}}

CategorySets ==
    {x \cup y \cup z : <<x, y, z>> \in
        EntryChoices("a") \X EntryChoices("b") \X EntryChoices(External)}

\* The dependencies mappings of the package a: each of build and run is not
\* declared, or declared with one of the sets.
DependencyMaps ==
    {[c \in cs |-> f[c]] : <<cs, f>> \in
        {x \in (SUBSET Categories) \X [Categories -> CategorySets] :
            \A c \in Categories \ x[1] : x[2][c] = {}}}

CategoryFilters == {None} \cup SUBSET {"build", "run", "test"}

InitDeps ==
    /\ descriptors = {[path |-> "/1", type |-> PkgType, name |-> "a"]}
    /\ \E dmap \in DependencyMaps :
          dependencies = [p \in Paths |-> IF p = "/1" THEN dmap ELSE <<>>]
    /\ NoWalkers
    /\ pcall = NoPCall
    /\ gd = NoGd
    /\ InitReporter
    /\ NoIdentity

NextDeps == \E cats \in CategoryFilters : GetDependencies("/1", cats)

\* get_dependencies calls on one package with bare and typed entries.
SpecDeps == InitDeps /\ [][NextDeps]_vars

----------------------------------------------------------------------------
\* Comparing, hashing and asking descriptors.

AllDescriptors ==
    {PackageDescriptor(arg, t, n) : <<arg, t, n>> \in PathArgs \X Types \X PackageNames}

\* Two descriptors after discovery, on one of the filesystems.
InitIdentity ==
    /\ \E l, r \in AllDescriptors : descriptors = {l, r}
    /\ dependencies = <<>>
    /\ NoWalkers
    /\ pcall = NoPCall
    /\ gd = NoGd
    /\ InitReporter
    /\ filesystem \in Filesystems
    /\ probe = NoProbe
    /\ hashes = <<>>
    /\ kept = NoKept
    /\ reading = [w \in Walkers |-> NoReading]

\* self.__eq__(other); other may be a str.
Equals(self, other) ==
    /\ probe' = [op |-> "__eq__", self |-> self, other |-> other,
                 value |-> __eq__(filesystem, self, other)]
    /\ UNCHANGED <<pkgVars, walkerVars, pcall, gd, reporterVars, filesystem, hashes,
                   kept, reading>>

\* hash(self)
Hash(self) ==
    /\ probe' = [op |-> "__hash__", self |-> self, other |-> self,
                 value |-> BoolValue(FALSE)]
    /\ hashes' = (self :> __hash__(self)) @@ hashes
    /\ UNCHANGED <<pkgVars, walkerVars, pcall, gd, reporterVars, filesystem, kept,
                   reading>>

\* self.identifies_package()
IdentifiesPackage(self) ==
    /\ probe' = [op |-> "identifies_package", self |-> self, other |-> self,
                 value |-> identifies_package(self)]
    /\ UNCHANGED <<pkgVars, walkerVars, pcall, gd, reporterVars, filesystem, hashes,
                   kept, reading>>

NextIdentity ==
    \/ \E l \in descriptors, r \in descriptors \cup {Str("a")} : Equals(l, r)
    \/ \E d \in descriptors : Hash(d)
    \/ \E d \in descriptors : IdentifiesPackage(d)

\* ==, hash() and identifies_package() on two descriptors.
SpecIdentity == InitIdentity /\ [][NextIdentity]_vars

----------------------------------------------------------------------------
\* PackageDescriptor.get_recursive_dependencies

\* descriptor.get_recursive_dependencies(descriptors, direct_categories=direct,
\* recursive_categories=recursive, walker=...) on the descriptor at path p,
\* with no walker or with the walker the caller keeps, which was built with
\* the same recursive categories.
PkgCall(p, direct, recursive, shared) ==
    /\ Idle
    /\ shared => categories["shared"] = recursive
    /\ LET w == IF shared THEN "shared" ELSE "single"
           r == get_dependencies(Desc(p).name, dependencies[p], direct)
       IN  /\ pcall' = [path |-> p, direct |-> direct, recursive |-> recursive,
                        walker |-> w]
           /\ categories' = [categories EXCEPT
                               !["single"] = IF shared THEN Absent ELSE recursive]
           /\ descriptors_by_name' = [descriptors_by_name EXCEPT
                               !["single"] = IF shared THEN <<>>
                                             ELSE IndexByName(descriptors)]
           /\ dependency_cache' = [dependency_cache EXCEPT !["single"] = <<>>]
           /\ dependencies' = [dependencies EXCEPT ![p] = r.dependencies]
           /\ IF r.raised
              THEN /\ call' = [call EXCEPT !["single"] = NoCall, ![w] = NoCall]
                   /\ status' = [status EXCEPT !["single"] = "idle",
                                               ![w] = "AssertionError"]
                   /\ result' = [result EXCEPT !["single"] = {}, ![w] = {}]
              ELSE Enter(w, Names(r.result))
    /\ UNCHANGED <<descriptors, stack, gd, reporterVars,
                   identityVars, kept, reading>>

NextPackage ==
    \/ \E p \in Declaring, direct \in DirectCategories, recursive \in WalkerCategories,
          shared \in BOOLEAN : PkgCall(p, direct, recursive, shared)
    \/ \E w \in Walkers, dep \in DepNames : CacheHit(w, dep)
    \/ \E w \in Walkers, dep \in DepNames : CacheMiss(w, dep)
    \/ \E w \in Walkers, p \in Paths : NextDescriptor(w, p)
    \/ \E w \in Walkers : MissingReturn(w)

\* get_recursive_dependencies calls on the packages a and b of a universe,
\* with a shared walker or with none.
SpecPackage == Init /\ [][NextPackage]_vars

----------------------------------------------------------------------------
\* A caller that compares the results of two get_recursive_dependencies calls.

\* The dependency entries of the universes of this caller: any of them may be
\* declared.
EdgeMenu ==
    {<<"/1", "build", DependencyDescriptor(Str("b"))>>,
     <<"/1", "run", Str("c")>>,
     <<"/2", "run", Str("a")>>,
     <<"/2", "run", Str("c")>>}

InitSharing ==
    /\ descriptors = ThreePackages
    /\ \E E \in SUBSET EdgeMenu :
          dependencies = [p \in Paths |-> DependenciesOf(E, p)]
    /\ \E cats \in WalkerCategories : InitWalker(cats)
    /\ pcall = NoPCall
    /\ gd = NoGd
    /\ InitReporter
    /\ NoIdentity

\* expected = descriptor.get_recursive_dependencies(descriptors, ...): the
\* caller keeps the outcome of one call it made without a walker.
KeepResult ==
    /\ kept = NoKept
    /\ pcall.walker = "single"
    /\ Finished("single")
    /\ kept' = [pcall |-> pcall, status |-> status["single"],
                result |-> result["single"]]
    /\ UNCHANGED <<pkgVars, walkerVars, pcall, gd, reporterVars, identityVars,
                   reading>>

\* The direct categories this caller asks for.
SharingDirect == {None, {"build"}}

NextSharing ==
    \/ \E p \in Declaring, direct \in SharingDirect, recursive \in WalkerCategories,
          shared \in BOOLEAN : PkgCall(p, direct, recursive, shared)
    \/ KeepResult
    \/ \E w \in {"shared", "single"}, dep \in DepNames : CacheHit(w, dep)
    \/ \E w \in {"shared", "single"}, dep \in DepNames : CacheMiss(w, dep)
    \/ \E w \in {"shared", "single"}, p \in Paths : NextDescriptor(w, p)
    \/ \E w \in {"shared", "single"} : MissingReturn(w)

\* get_recursive_dependencies calls with the shared walker and with none, the
\* outcome of a call with none being kept for comparison.
SpecSharing == InitSharing /\ [][NextSharing]_vars

----------------------------------------------------------------------------
\* Two resolution sessions, each with a walker of its own, over one set of
\* descriptors. The interpreter switches between the sessions at any point
\* between two operations on a dict or a set, also inside get_dependencies.

\* The dependency entries of the universes the sessions share: any of them
\* may be declared.
SessionMenu ==
    {<<"/1", "build", DependencyDescriptor(Str("b"))>>,
     <<"/2", "run", Str("c")>>,
     <<"/2", "build", Str("a")>>}

InitSessions ==
    /\ descriptors = ThreePackages
    /\ \E E \in SUBSET SessionMenu :
          dependencies = [p \in Paths |-> DependenciesOf(E, p)]
    /\ \E cats \in [Sessions -> WalkerCategories] :
          /\ categories = [x \in Walkers |-> IF x \in Sessions THEN cats[x] ELSE Absent]
          /\ descriptors_by_name =
                [x \in Walkers |-> IF x \in Sessions THEN IndexByName(descriptors)
                                   ELSE <<>>]
    /\ dependency_cache = [x \in Walkers |-> <<>>]
    /\ stack = [x \in Walkers |-> <<>>]
    /\ call = [x \in Walkers |-> NoCall]
    /\ status = [x \in Walkers |-> "idle"]
    /\ result = [x \in Walkers |-> {}]
    /\ pcall = NoPCall
    /\ gd = NoGd
    /\ InitReporter
    /\ NoIdentity

\* The session of walker w calls walker.get_recursive_dependencies(*args).
SessionCall(w, args) ==
    /\ status[w] # "running"
    /\ Enter(w, args)
    /\ UNCHANGED <<descriptors, dependencies, categories, descriptors_by_name,
                   dependency_cache, stack, pcall, gd, reporterVars, identityVars,
                   kept, reading>>

\* descriptor.get_dependencies(categories=oself.categories) is entered by the
\* loop of __missing__ and has evaluated sorted(categories).
BeginGetDependencies(w, p) ==
    /\ status[w] = "running"
    /\ stack[w] # <<>>
    /\ ~Top(w).inloop
    /\ p \in Top(w).descs
    /\ reading[w] = NoReading
    /\ reading' = [reading EXCEPT ![w] =
          [path |-> p,
           todo |-> Sorted(IF categories[w] = None THEN DOMAIN dependencies[p]
                           ELSE categories[w]),
           acc |-> {}]]
    /\ UNCHANGED <<pkgVars, walkerVars, pcall, gd, reporterVars, identityVars, kept>>

\* One pass of the loop over the categories.
LoopGetDependencies(w) ==
    /\ reading[w] # NoReading
    /\ reading[w].todo # <<>>
    /\ LET rd == reading[w]
           r == LoopStep(dependencies[rd.path], Head(rd.todo), rd.acc)
       IN  /\ dependencies' = [dependencies EXCEPT ![rd.path] = r.dependencies]
           /\ reading' = [reading EXCEPT ![w] =
                 [rd EXCEPT !.todo = Tail(rd.todo), !.acc = r.acc]]
    /\ UNCHANGED <<descriptors, walkerVars, pcall, gd, reporterVars, identityVars,
                   kept>>

\* The assertion and the return of get_dependencies; __missing__ goes on with
\* the returned names.
EndGetDependencies(w) ==
    /\ reading[w] # NoReading
    /\ reading[w].todo = <<>>
    /\ LET rd == reading[w]
           f == Top(w)
           names == Names({DependencyDescriptor(d) : d \in rd.acc})
       IN  IF SelfListed(Desc(rd.path).name, rd.acc)
           THEN Raise(w, "AssertionError")
           ELSE /\ stack' = [stack EXCEPT ![w] = SetTop(@,
                         [f EXCEPT !.descs = f.descs \ {rd.path},
                                   !.deps = names,
                                   !.total = {},
                                   !.inloop = names # {}])]
                /\ UNCHANGED <<call, status, result>>
    /\ reading' = [reading EXCEPT ![w] = NoReading]
    /\ UNCHANGED <<descriptors, dependencies, categories, descriptors_by_name,
                   dependency_cache, pcall, gd, reporterVars, identityVars, kept>>

\* The names a session asks for in one call.
SessionQueries == {{"a"}, {"b"}}

NextSessions ==
    \/ \E w \in Sessions, args \in SessionQueries : SessionCall(w, args)
    \/ \E w \in Sessions, dep \in DepNames : CacheHit(w, dep)
    \/ \E w \in Sessions, dep \in DepNames : CacheMiss(w, dep)
    \/ \E w \in Sessions, p \in Paths : BeginGetDependencies(w, p)
    \/ \E w \in Sessions : LoopGetDependencies(w)
    \/ \E w \in Sessions : EndGetDependencies(w)
    \/ \E w \in Sessions : MissingReturn(w)

\* Two sessions, each with its own walker, interleaved step by step.
SpecSessions == InitSessions /\ [][NextSessions]_vars

----------------------------------------------------------------------------
\* ConsoleStartEndEventHandler

\* colcon_core.subprocess.SIGINT_RESULT, the reserved result of an interrupted
\* job; it is neither 0 nor the exit code of a process.
SIGINT_RESULT == -2

Results == {0, SIGINT_RESULT, 2}

Started(id) == [kind |-> "JobStarted", id |-> id, rc |-> -1]
Ended(id, rc) == [kind |-> "JobEnded", id |-> id, rc |-> rc]
Other == [kind |-> "Other", id |-> "", rc |-> -1]

\* A printed line; a field the line does not show is -1.
Line(tag, id, duration, rc) == [tag |-> tag, id |-> id, duration |-> duration, rc |-> rc]

\* '{duration:.2f}' of a duration of d ticks, in hundredths of a second: an
\* odd number of ticks lies halfway between two hundredths, and the float
\* rounds to either.
Format2f(d) == IF d % 2 = 0 THEN {d \div 2} ELSE {d \div 2, d \div 2 + 1}

\* Mutant of Recorded: one start time is kept for all jobs.
RecordedForAll(st, id, t) == [k \in DOMAIN st \cup {id} |-> t]

\* Mutant of Recorded: the first start time of an identifier is kept.
RecordedFirst(st, id, t) == IF id \in DOMAIN st THEN st ELSE (id :> t) @@ st

\* Mutant of Recorded: the start time is not kept.
RecordedNothing(st, id, t) == st

\* self._start_times[data.identifier] = time.time()
Recorded(st, id, t) == (id :> t) @@ st

\* Mutant of StartTime: a missing identifier reads as time 0, like dict.get.
StartTimeOrZero(st, id) ==
    [found |-> TRUE, value |-> IF id \in DOMAIN st THEN st[id] ELSE 0]

\* self._start_times[data.identifier]: KeyError when the key is missing.
StartTime(st, id) ==
    [found |-> id \in DOMAIN st, value |-> IF id \in DOMAIN st THEN st[id] ELSE 0]

\* Mutant of EndLine: every end line goes to sys.stdout.
EndLineStdout(id, rc, shown) ==
    IF rc = 0
    THEN [stream |-> "stdout", line |-> Line("Finished", id, shown, -1)]
    ELSE IF rc = SIGINT_RESULT
    THEN [stream |-> "stdout", line |-> Line("Aborted", id, -1, -1)]
    ELSE [stream |-> "stdout", line |-> Line("Failed", id, -1, rc)]

\* The message of an end event and the stream it is written to.
EndLine(id, rc, shown) ==
    IF rc = 0
    THEN [stream |-> "stdout", line |-> Line("Finished", id, shown, -1)]
    ELSE IF rc = SIGINT_RESULT
    THEN [stream |-> "stdout", line |-> Line("Aborted", id, -1, -1)]
    ELSE [stream |-> "stderr", line |-> Line("Failed", id, -1, rc)]

\* __call__ with a JobStarted event; time.time() returns t. The clock is taken
\* not to run backwards between two calls.
OnJobStarted(id, t) ==
    /\ t \in now..MaxTime
    /\ events' = Append(events, Started(id))
    /\ stdout' = Append(stdout, Line("Starting", id, -1, -1))
    /\ start_times' = Recorded(start_times, id, t)
    /\ now' = t
    /\ raised' = "none"
    /\ UNCHANGED stderr

\* __call__ with a JobEnded event; time.time() returns t.
OnJobEnded(id, rc, t) ==
    /\ t \in now..MaxTime
    /\ events' = Append(events, Ended(id, rc))
    /\ now' = t
    /\ LET s == StartTime(start_times, id)
       IN  IF ~s.found
           THEN /\ raised' = "KeyError"
                /\ UNCHANGED <<start_times, stdout, stderr>>
           ELSE \E shown \in Format2f(t - s.value) :
                  LET out == EndLine(id, rc, shown)
                  IN  /\ raised' = "none"
                      /\ stdout' = IF out.stream = "stdout"
                                   THEN Append(stdout, out.line) ELSE stdout
                      /\ stderr' = IF out.stream = "stderr"
                                   THEN Append(stderr, out.line) ELSE stderr
                      /\ UNCHANGED start_times

\* __call__ with an event that is neither: nothing is done.
OnOtherEvent ==
    /\ events' = Append(events, Other)
    /\ raised' = "none"
    /\ UNCHANGED <<start_times, now, stdout, stderr>>

notReporterVars == <<pkgVars, walkerVars, pcall, gd, identityVars, kept, reading>>

\* No package and no walker: the reporter alone.
InitAlone ==
    /\ descriptors = {}
    /\ dependencies = <<>>
    /\ NoWalkers
    /\ pcall = NoPCall
    /\ gd = NoGd
    /\ InitReporter
    /\ NoIdentity

\* Any event is delivered.
DeliverStarted(id, t) ==
    /\ Len(events) < MaxEvents
    /\ OnJobStarted(id, t)
    /\ UNCHANGED <<jobs, notReporterVars>>

DeliverEnded(id, rc, t) ==
    /\ Len(events) < MaxEvents
    /\ OnJobEnded(id, rc, t)
    /\ UNCHANGED <<jobs, notReporterVars>>

DeliverOther ==
    /\ Len(events) < MaxEvents
    /\ OnOtherEvent
    /\ UNCHANGED <<jobs, notReporterVars>>

NextReporter ==
    \/ \E id \in JobIds, t \in 0..MaxTime : DeliverStarted(id, t)
    \/ \E id \in JobIds, rc \in Results, t \in 0..MaxTime : DeliverEnded(id, rc, t)
    \/ DeliverOther

\* One reporter fed any events, paired or not.
SpecReporter == InitAlone /\ [][NextReporter]_vars

\* The scheduler contract: a job emits one start event, then one end event.
JobStarts(id, t) ==
    /\ jobs[id] = "NotStarted"
    /\ jobs' = [jobs EXCEPT ![id] = "Running"]
    /\ OnJobStarted(id, t)
    /\ UNCHANGED notReporterVars

JobEnds(id, rc, t) ==
    /\ jobs[id] = "Running"
    /\ jobs' = [jobs EXCEPT ![id] = "Ended"]
    /\ OnJobEnded(id, rc, t)
    /\ UNCHANGED notReporterVars

NextScheduler ==
    \/ \E id \in JobIds, t \in 0..MaxTime : JobStarts(id, t)
    \/ \E id \in JobIds, rc \in Results, t \in 0..MaxTime : JobEnds(id, rc, t)

\* One reporter fed the events of concurrently running jobs, one at a time.
SpecScheduler == InitAlone /\ [][NextScheduler]_vars

----------------------------------------------------------------------------
\* The reference dependency graph of a walker: the edges out of the known
\* packages through the walker's recursive categories.

Known(w) == {d.name : d \in descriptors}

RecursiveCategories(w, p) ==
    IF categories[w] = None THEN DOMAIN dependencies[p]
    ELSE categories[w] \cap DOMAIN dependencies[p]

DirectNames(w, n) ==
    UNION {Names(dependencies[d.path][c]) :
             <<d, c>> \in {x \in descriptors \X (Categories \cup {"test"}) :
                             x[1].name = n /\ x[2] \in RecursiveCategories(w, x[1].path)}}

RECURSIVE Grow(_, _, _)
Grow(w, T, k) ==
    IF k = 0 THEN T
    ELSE Grow(w, T \cup UNION {DirectNames(w, n) : n \in T}, k - 1)

\* Every name reachable from a name of T, the names of T included.
Reach(w, T) == Grow(w, T, Cardinality(DepNames))

\* The reference transitive closure of one requested name.
Closure(w, k) == Reach(w, {k}) \cap Known(w)

OnCycle(w, n) == n \in Known(w) /\ n \in Reach(w, DirectNames(w, n))

Acyclic(w) == \A n \in PkgNames : ~OnCycle(w, n)

----------------------------------------------------------------------------
\* C1: when a depends on b and b depends on a through recursive categories,
\* walker.get_recursive_dependencies(a) terminates and returns a set that
\* contains both a and b.
C1_CyclicTerminates ==
    \A A, B \in PkgNames :
        ( /\ A # B
          /\ B \in DirectNames("shared", A)
          /\ A \in DirectNames("shared", B)
          /\ call["shared"].args = {A}
          /\ Finished("shared") )
        => /\ status["shared"] = "returned"
           /\ {A, B} \subseteq result["shared"]

\* C2: every returned set and every cached value holds known package names
\* only; a query for unknown names returns the empty set; a query for a known
\* A that depends on an unknown name returns A and A's known recursive
\* dependencies, and does not raise.
C2_UnknownDropped ==
    LET w == "shared"
        known == DOMAIN descriptors_by_name[w]
    IN  /\ \A k \in DOMAIN dependency_cache[w] : dependency_cache[w][k] \subseteq known
        /\ status[w] = "returned" => result[w] \subseteq known
        /\ (Finished(w) /\ call[w].args \cap known = {})
              => status[w] = "returned" /\ result[w] = {}
        /\ \A A \in known :
              ( /\ Finished(w)
                /\ call[w].args = {A}
                /\ DirectNames(w, A) \ known # {}
                /\ \A n \in Reach(w, {A}) : ~OnCycle(w, n) )
              => /\ status[w] = "returned"
                 /\ A \in result[w]
                 /\ result[w] = Reach(w, {A}) \cap known

C2_Witness ==
    /\ status["shared"] = "returned"
    /\ call["shared"].args = {"a"}
    /\ External \in DirectNames("shared", "a")
    /\ result["shared"] = {"a", "b"}

\* C3: once a query has returned, every requested name has a cache entry and
\* the answer is the union of those entries; an entry, once written, is never
\* changed or removed; __missing__ is never entered for a name in the cache.
C3_Memoized ==
    /\ [](status["shared"] = "returned" =>
            /\ call["shared"].args \subseteq DOMAIN dependency_cache["shared"]
            /\ result["shared"] =
                  UNION {dependency_cache["shared"][k] : k \in call["shared"].args})
    /\ [][ /\ \A k \in DOMAIN dependency_cache["shared"] :
                 /\ k \in DOMAIN dependency_cache'["shared"]
                 /\ dependency_cache'["shared"][k] = dependency_cache["shared"][k]
           /\ Len(stack'["shared"]) > Len(stack["shared"]) =>
                 stack'["shared"][Len(stack'["shared"])].key
                     \notin DOMAIN dependency_cache["shared"]
         ]_vars

\* b was cached while a was expanded, and a later query for b has returned.
C3_Witness ==
    /\ status["shared"] = "returned"
    /\ call["shared"].args = {"b"}
    /\ "a" \in DOMAIN dependency_cache["shared"]
    /\ dependency_cache["shared"]["a"] = {"a", "b", "c"}
    /\ result["shared"] = {"b", "c"}

\* C4: in a universe whose recursive dependency graph has no cycle and no
\* self-dependency, a query returns the union of the reference closures of the
\* requested names, and every cache entry is the reference closure of its key.
C4_AcyclicClosure ==
    LET w == "shared"
    IN  Acyclic(w) =>
          /\ status[w] \notin {"AssertionError", "RecursionError"}
          /\ status[w] = "returned" =>
                result[w] = UNION {Closure(w, k) : k \in call[w].args}
          /\ \A k \in DOMAIN dependency_cache[w] :
                dependency_cache[w][k] = Closure(w, k)

\* a -> b -> c: c is in the answer for a only through b.
C4_Witness ==
    /\ status["shared"] = "returned"
    /\ call["shared"].args = {"a"}
    /\ "c" \notin DirectNames("shared", "a")
    /\ result["shared"] = {"a", "b", "c"}

----------------------------------------------------------------------------
\* The names a package declares in the requested categories (all of them for
\* None); a category it does not declare has none.
RequestedNames(p, cats) ==
    UNION {Names(dependencies[p][c]) :
             c \in IF cats = None THEN DOMAIN dependencies[p]
                   ELSE cats \cap DOMAIN dependencies[p]}

OwnListed(p, cats) == Desc(p).name \in RequestedNames(p, cats)

\* C5: get_dependencies raises AssertionError, and returns no set, exactly
\* when the package's own name is among the names of the requested
\* categories, as a bare string or as a DependencyDescriptor.
C5_SelfDependencyRaises ==
    gd.outcome # "none" =>
        IF OwnListed(gd.path, gd.categories)
        THEN gd.outcome = "AssertionError" /\ gd.result = {}
        ELSE gd.outcome = "returned"

\* The own name is listed as a DependencyDescriptor.
C5_Witness ==
    /\ gd.outcome = "AssertionError"
    /\ gd.categories = {"run"}
    /\ "run" \in DOMAIN dependencies["/1"]
    /\ DependencyDescriptor(Str("a")) \in dependencies["/1"]["run"]

C7_UnionOfCategories ==
    gd.outcome = "returned" =>
        gd.result = {DependencyDescriptor(Str(n)) :
                        n \in RequestedNames(gd.path, gd.categories)}

\* A filter of two categories, one of them not declared; run is left out.
C7_Witness ==
    /\ gd.outcome = "returned"
    /\ gd.categories = {"build", "test"}
    /\ DOMAIN dependencies["/1"] = {"build", "run", "test"}
    /\ dependencies["/1"]["build"] = {Str("b")}
    /\ dependencies["/1"]["run"] = {DependencyDescriptor(Str(External))}
    /\ gd.result = {DependencyDescriptor(Str("b"))}

----------------------------------------------------------------------------
\* A start event for id was delivered to the reporter before.
HasStarted(id) == \E i \in 1..Len(events) : events[i] = Started(id)

EndTags == {"Finished", "Aborted", "Failed"}

LinesOf(out, id, tags) == {i \in 1..Len(out) : out[i].id = id /\ out[i].tag \in tags}

\* C8: an end event of a started job appends exactly one line to exactly one
\* stream: Finished with the duration on stdout for rc 0, Aborted without a
\* duration on stdout for the interrupt sentinel, Failed with the rc on
\* stderr, and nothing on stdout, for any other rc.
C8_EndLineByResult ==
    [][ ( /\ Len(events') = Len(events) + 1
          /\ events'[Len(events')].kind = "JobEnded"
          /\ HasStarted(events'[Len(events')].id) )
        => LET e == events'[Len(events')]
           IN  /\ raised' = "none"
               /\ e.rc = 0 =>
                    /\ \E shown \in Format2f(now' - start_times[e.id]) :
                          stdout' = Append(stdout, Line("Finished", e.id, shown, -1))
                    /\ stderr' = stderr
               /\ e.rc = SIGINT_RESULT =>
                    /\ stdout' = Append(stdout, Line("Aborted", e.id, -1, -1))
                    /\ stderr' = stderr
               /\ e.rc \notin {0, SIGINT_RESULT} =>
                    /\ stderr' = Append(stderr, Line("Failed", e.id, -1, e.rc))
                    /\ stdout' = stdout
      ]_vars

\* pkgX started and failed with code 2.
C8_Witness ==
    /\ events = <<Started("pkgX"), Ended("pkgX", 2)>>
    /\ stdout = <<Line("Starting", "pkgX", -1, -1)>>
    /\ stderr = <<Line("Failed", "pkgX", -1, 2)>>

\* The state of an identifier as the reporter shows it.
ReporterState(st, out, err, id) ==
    IF LinesOf(out, id, EndTags) \cup LinesOf(err, id, EndTags) # {} THEN "Ended"
    ELSE IF id \in DOMAIN st THEN "Running"
    ELSE "NotStarted"

\* C9: under the scheduler contract the reporter never raises; every
\* identifier has one Starting line once its job started and one end line,
\* after the Starting line, once its job ended; the state the reporter shows
\* follows the job and only moves NotStarted -> Running -> Ended.
C9_Lifecycle ==
    /\ [](/\ raised = "none"
          /\ \A id \in JobIds :
               /\ Cardinality(LinesOf(stdout, id, {"Starting"})) =
                     IF jobs[id] = "NotStarted" THEN 0 ELSE 1
               /\ Cardinality(LinesOf(stdout, id, EndTags))
                     + Cardinality(LinesOf(stderr, id, EndTags)) =
                     IF jobs[id] = "Ended" THEN 1 ELSE 0
               /\ \A i \in LinesOf(stdout, id, EndTags) :
                     \E j \in LinesOf(stdout, id, {"Starting"}) : j < i
               /\ ReporterState(start_times, stdout, stderr, id) = jobs[id])
    /\ [][\A id \in JobIds :
            \/ ReporterState(start_times', stdout', stderr', id) =
                  ReporterState(start_times, stdout, stderr, id)
            \/ /\ ReporterState(start_times, stdout, stderr, id) = "NotStarted"
               /\ ReporterState(start_times', stdout', stderr', id) = "Running"
            \/ /\ ReporterState(start_times, stdout, stderr, id) = "Running"
               /\ ReporterState(start_times', stdout', stderr', id) = "Ended"
         ]_vars

\* Both jobs ran at once; pkgY, started second, failed first.
C9_Witness ==
    /\ \A id \in JobIds : jobs[id] = "Ended"
    /\ events[1] = Started("pkgX")
    /\ events[2] = Started("pkgY")
    /\ events[3] = Ended("pkgY", 2)
    /\ events[4] = Ended("pkgX", 0)
    /\ Len(stdout) = 3
    /\ Len(stderr) = 1

\* C10: an end event for an identifier that never had a start event raises,
\* prints nothing and leaves the recorded start times as they were.
C10_EndWithoutStartRaises ==
    [][ ( /\ Len(events') = Len(events) + 1
          /\ events'[Len(events')].kind = "JobEnded"
          /\ ~HasStarted(events'[Len(events')].id) )
        => /\ raised' = "KeyError"
           /\ stdout' = stdout
           /\ stderr' = stderr
           /\ start_times' = start_times
      ]_vars

\* pkgX was started, and the end event is for pkgY.
C10_Witness ==
    /\ events = <<Started("pkgX"), Ended("pkgY", 0)>>
    /\ raised = "KeyError"
    /\ stdout = <<Line("Starting", "pkgX", -1, -1)>>
    /\ stderr = <<>>
    /\ DOMAIN start_times = {"pkgX"}


----------------------------------------------------------------------------
\* C11: two PackageDescriptors are equal exactly when their (type, name)
\* pairs match and their paths are equal or resolve to the same real path;
\* the hash is a function of (type, name) alone, so equal descriptors have
\* equal hashes, and descriptors with the same (type, name) and different
\* real paths are unequal with the same hash.
C11_EqualityAndHash ==
    /\ (probe.op = "__eq__" /\ IsPackageDescriptor(probe.other)) =>
          LET l == probe.self
              r == probe.other
              same == l.type = r.type /\ l.name = r.name
              real == realpath(filesystem, l.path) = realpath(filesystem, r.path)
          IN  /\ probe.value = BoolValue(same /\ (l.path = r.path \/ real))
              /\ (same /\ ~real) => probe.value = BoolValue(FALSE)
              /\ (probe.value = BoolValue(TRUE) /\ {l, r} \subseteq DOMAIN hashes)
                    => hashes[l] = hashes[r]
    /\ \A l, r \in DOMAIN hashes :
          (l.type = r.type /\ l.name = r.name) => hashes[l] = hashes[r]

\* /ws/link is a symbolic link to /ws/a: the two descriptors are equal and
\* were hashed.
C11_Witness ==
    /\ probe.op = "__eq__"
    /\ probe.self = PackageDescriptor("/ws/link", "python", "a")
    /\ probe.other = PackageDescriptor("/ws/a/", "python", "a")
    /\ probe.value = BoolValue(TRUE)
    /\ {probe.self, probe.other} \subseteq DOMAIN hashes

\* C12 as claimed: identifies_package() is true exactly when type and name are
\* non-empty strings and the path is a non-empty path that exists.
C12_IdentifiesIffAllSet ==
    probe.op = "identifies_package" =>
        (Truthy(probe.value) <=>
            /\ probe.self.type \notin {Unset, ""}
            /\ probe.self.name \notin {Unset, ""}
            /\ probe.self.path # EmptyPath
            /\ Exists(filesystem, probe.self.path))

----------------------------------------------------------------------------
\* A and B are different packages that reach each other through the
\* recursive categories of walker w.
Mutual(w, A, B) ==
    /\ A # B
    /\ {A, B} \subseteq Known(w)
    /\ B \in Reach(w, DirectNames(w, A))
    /\ A \in Reach(w, DirectNames(w, B))

\* C13 as claimed: a query for a member of a dependency cycle returns, and
\* the returned set and the cache entry of every member of the cycle are the
\* full mutual closure, whichever member was asked first.
C13_CycleFixedPoint ==
    \A A, B \in PkgNames :
        (Mutual("shared", A, B) /\ A \in call["shared"].args /\ Finished("shared"))
        => /\ status["shared"] = "returned"
           /\ Closure("shared", A) \subseteq result["shared"]
           /\ \A m \in {A, B} :
                 /\ m \in DOMAIN dependency_cache["shared"]
                 /\ dependency_cache["shared"][m] = Closure("shared", A)

----------------------------------------------------------------------------
\* The last call with the shared walker has the arguments of the kept call.
SameCall ==
    /\ kept.status # "idle"
    /\ pcall.walker = "shared"
    /\ pcall.path = kept.pcall.path
    /\ pcall.direct = kept.pcall.direct
    /\ pcall.recursive = kept.pcall.recursive

\* C14: a get_recursive_dependencies call with the shared walker, whatever
\* the walker was used for before, returns exactly when the same call without
\* a walker returns, and returns the same set.
C14_SharedWalkerSameResult ==
    (SameCall /\ Finished("shared")
       /\ (kept.status = "returned" \/ status["shared"] = "returned"))
    => /\ kept.status = "returned"
       /\ status["shared"] = "returned"
       /\ result["shared"] = kept.result

\* b and c were cached by an earlier call on b; the call on a with the shared
\* walker returns what the call without a walker returned.
C14_Witness ==
    /\ SameCall
    /\ pcall.path = "/1"
    /\ status["shared"] = "returned"
    /\ kept.result = {"b", "c"}
    /\ result["shared"] = {"b", "c"}
    /\ DOMAIN dependency_cache["shared"] = {"b", "c"}

----------------------------------------------------------------------------
\* The names the packages called n declare in the categories cats.
DeclaredNames(cats, n) ==
    UNION {RequestedNames(d.path, cats) : d \in {e \in descriptors : e.name = n}}

\* The graph a walker with the recursive categories R follows.
WalkerEdges(R) == [n \in DepNames |-> DeclaredNames(R, n)]

\* The same graph, the edges out of the package at path p taken from the
\* direct categories D instead.
SeparatedEdges(p, D, R) ==
    [n \in DepNames |-> IF n = Desc(p).name THEN RequestedNames(p, D)
                        ELSE DeclaredNames(R, n)]

RECURSIVE GrowBy(_, _, _)
GrowBy(edges, T, k) ==
    IF k = 0 THEN T
    ELSE GrowBy(edges, T \cup UNION {edges[n] : n \in T}, k - 1)

\* The known packages reachable in the graph from a name of T, T included.
ReachBy(edges, T) ==
    GrowBy(edges, T, Cardinality(DepNames)) \cap {d.name : d \in descriptors}

\* C15 as claimed: the result is what is reachable from the dependencies the
\* package declares in the direct categories, the edges out of the package
\* itself taken from the direct categories only and the edges out of every
\* other package from the recursive categories only.
C15_EdgesOfCallerDirectOnly ==
    (pcall.walker # "" /\ status[pcall.walker] = "returned")
    => result[pcall.walker] =
          ReachBy(SeparatedEdges(pcall.path, pcall.direct, pcall.recursive),
                  RequestedNames(pcall.path, pcall.direct))

\* C15 as amended: the result is the union, over the dependencies the package
\* declares in the direct categories, of the walker closure of each; the
\* closure follows the recursive categories only, also out of the calling
\* package when one of its dependencies leads back to it.
C15_DirectThenRecursive ==
    (pcall.walker # "" /\ status[pcall.walker] = "returned")
    => result[pcall.walker] =
          UNION {ReachBy(WalkerEdges(pcall.recursive), {k}) :
                   k \in RequestedNames(pcall.path, pcall.direct)}

\* a declares b for build and c for run, b declares a for run; the call with
\* direct categories build and recursive categories run.
C15_Witness ==
    /\ pcall.path = "/1"
    /\ pcall.direct = {"build"}
    /\ pcall.recursive = {"run"}
    /\ status[pcall.walker] = "returned"
    /\ RequestedNames("/1", {"build"}) = {"b"}
    /\ RequestedNames("/1", {"run"}) = {"c"}
    /\ RequestedNames("/2", {"run"}) = {"a"}
    /\ result[pcall.walker] = {"a", "b", "c"}

----------------------------------------------------------------------------
\* C16 as claimed: no get_dependencies call, with or without a filter, changes
\* the dependencies mapping of a descriptor or the set of its category keys.
C16_DependenciesReadOnly ==
    [][\A p \in DOMAIN dependencies :
          /\ DOMAIN dependencies'[p] = DOMAIN dependencies[p]
          /\ dependencies'[p] = dependencies[p]]_vars

----------------------------------------------------------------------------
\* C17: the cache entry of a name holds, for every descriptor that carries
\* the name, the known names the descriptor declares in the recursive
\* categories, each with its reference closure.
C17_SameNameUnioned ==
    \A n \in DOMAIN dependency_cache["shared"] :
        \A d \in {e \in descriptors : e.name = n} :
            \A m \in RequestedNames(d.path, categories["shared"]) :
                Closure("shared", m) \subseteq dependency_cache["shared"][n]

\* Only the descriptor of a at /2 declares b; the one at /1 declares names of
\* no package.
C17_Witness ==
    /\ descriptors = DuplicatePackages
    /\ status["shared"] = "returned"
    /\ call["shared"].args = {"a"}
    /\ RequestedNames("/1", None) = {"c", External}
    /\ RequestedNames("/2", None) = {"b"}
    /\ result["shared"] = {"a", "b"}
    /\ dependency_cache["shared"]["a"] = {"a", "b"}

----------------------------------------------------------------------------
\* The last event delivered in this step, if one was.
Delivered(evs, evs2) == Len(evs2) = Len(evs) + 1

\* C18: with several jobs running, a start event records the time of the
\* event under its own identifier and under no other; an end event leaves
\* every recorded time as it is, and the duration it reports for a finished
\* job is its own time minus the time recorded for its identifier, shown
\* with two decimals.
C18_DurationFromOwnStart ==
    [][Delivered(events, events') =>
         LET e == events'[Len(events')]
         IN  /\ \A id \in DOMAIN start_times \ {e.id} :
                   /\ id \in DOMAIN start_times'
                   /\ start_times'[id] = start_times[id]
             /\ e.kind = "JobStarted" =>
                   /\ DOMAIN start_times' = DOMAIN start_times \cup {e.id}
                   /\ start_times'[e.id] = now'
             /\ e.kind = "JobEnded" =>
                   /\ start_times' = start_times
                   /\ e.rc = 0 =>
                        \E shown \in Format2f(now' - start_times[e.id]) :
                           stdout'[Len(stdout')] = Line("Finished", e.id, shown, -1)
      ]_vars

\* pkgX started at tick 0, pkgY at tick 2, and pkgX finished at tick 2: the
\* line shows 0.01 s, two ticks of 5 ms.
C18_Witness ==
    /\ events = <<Started("pkgX"), Started("pkgY"), Ended("pkgX", 0)>>
    /\ start_times["pkgX"] = 0
    /\ start_times["pkgY"] = 2
    /\ now = 2
    /\ stdout[3] = Line("Finished", "pkgX", 1, -1)

----------------------------------------------------------------------------
\* An end event for id was delivered to the reporter before.
HasEnded(id) ==
    \E i \in 1..Len(events) : events[i].kind = "JobEnded" /\ events[i].id = id

\* C20: an identifier has a recorded start time exactly when a start event
\* for it was delivered; no event removes a recorded time; a start event
\* writes the time of the event over any earlier one; an end event for a job
\* that was started and has ended already does not raise and prints one more
\* end line, its duration taken from the recorded start time.
C20_StartTimeNeverForgotten ==
    /\ [](\A id \in JobIds : id \in DOMAIN start_times <=> HasStarted(id))
    /\ [][Delivered(events, events') =>
            /\ DOMAIN start_times \subseteq DOMAIN start_times'
            /\ events'[Len(events')].kind = "JobStarted" =>
                  start_times'[events'[Len(events')].id] = now'
            /\ ( /\ events'[Len(events')].kind = "JobEnded"
                 /\ HasStarted(events'[Len(events')].id)
                 /\ HasEnded(events'[Len(events')].id) ) =>
                  /\ raised' = "none"
                  /\ start_times' = start_times
                  /\ Len(stdout') + Len(stderr') = Len(stdout) + Len(stderr) + 1
                  /\ events'[Len(events')].rc = 0 =>
                        \E shown \in Format2f(now' - start_times[events'[Len(events')].id]) :
                           stdout' = Append(stdout,
                              Line("Finished", events'[Len(events')].id, shown, -1))
         ]_vars

\* pkgX started at tick 0 and its end event came twice, at ticks 0 and 2.
C20_Witness ==
    /\ events = <<Started("pkgX"), Ended("pkgX", 0), Ended("pkgX", 0)>>
    /\ raised = "none"
    /\ DOMAIN start_times = {"pkgX"}
    /\ stdout = <<Line("Starting", "pkgX", -1, -1),
                  Line("Finished", "pkgX", 0, -1),
                  Line("Finished", "pkgX", 1, -1)>>

----------------------------------------------------------------------------
\* What belongs to the session of walker w alone.
SessionState(ca, st, cl, sts, res, rd, w) ==
    <<ca[w], st[w], cl[w], sts[w], res[w], rd[w]>>

\* C19: however the steps of two sessions with walkers of their own are
\* interleaved, a query returns exactly when nothing it reaches lies on a
\* cycle, it returns the union of the reference closures of the requested
\* names, and every cache entry is the reference closure of its key, as in a
\* run of one session alone; a step changes the walker of one session only,
\* and it changes no entry of a dependencies mapping: a category key it
\* inserts holds the empty set.
C19_SessionsIsolated ==
    /\ [](\A w \in Sessions :
            /\ Finished(w) =>
                 (status[w] = "returned" <=>
                     \A n \in Reach(w, call[w].args) : ~OnCycle(w, n))
            /\ status[w] = "returned" =>
                 result[w] = UNION {Closure(w, k) : k \in call[w].args}
            /\ \A k \in DOMAIN dependency_cache[w] :
                 dependency_cache[w][k] = Closure(w, k))
    /\ [][ /\ \A p \in Paths :
                /\ \A c \in DOMAIN dependencies[p] :
                      /\ c \in DOMAIN dependencies'[p]
                      /\ dependencies'[p][c] = dependencies[p][c]
                /\ \A c \in DOMAIN dependencies'[p] \ DOMAIN dependencies[p] :
                      dependencies'[p][c] = {}
           /\ \E w \in Sessions : \A v \in Sessions \ {w} :
                SessionState(dependency_cache', stack', call', status', result',
                             reading', v)
                  = SessionState(dependency_cache, stack, call, status, result,
                                 reading, v)
         ]_vars

\* Both sessions are inside get_dependencies of the package a, which declares
\* no run category: session2, with the recursive category run, has inserted
\* the key, and session1, with all categories, has found it there.
C19_Witness ==
    /\ categories["session1"] = None
    /\ categories["session2"] = {"run"}
    /\ status["session1"] = "running"
    /\ status["session2"] = "running"
    /\ reading["session2"] = [path |-> "/1", todo |-> <<>>, acc |-> {}]
    /\ reading["session1"].path = "/1"
    /\ reading["session1"].todo = <<"build", "run">>
    /\ dependencies["/1"]["run"] = {}

====
